---- MODULE Spec2Model ----
(***************************************************************************)
(* Model of the TransXChange -> GTFS converter (txc2gtfs / transx2gtfs).   *)
(*                                                                         *)
(* The module holds several specifications over one set of variables; each *)
(* specification drives one part of the program and leaves the variables   *)
(* of the other parts at their idle values:                                *)
(*   SpecProject  the per-document projectors (get_stop_times, get_trips)  *)
(*                and the conditional append of process_file               *)
(*   SpecService  generate_service_id on a frame of vehicle journeys       *)
(*   SpecCache    worker processes inside download_cached                  *)
(*   SpecStops    get_stops: the choice of the stop strategy and the two   *)
(*                strategies against the NaPTAN registry                   *)
(*   SpecConvert  convert: process_file per document, in the calling       *)
(*                process or in a multiprocessing pool, then the export    *)
(*   SpecFields   the inline coordinate fallback, get_mode, get_direction  *)
(*   SpecRoutes   get_routes on one document                               *)
(*   SpecCalendar get_calendar_dates and the append of its table           *)
(*   SpecExport   appends of documents to the staging store and            *)
(*                generate_gtfs_export over it                             *)
(*   SpecAgency   get_agency on the Operator elements of one document      *)
(*   SpecWorkers  create_workers on a list of input files                  *)
(*   SpecPaths    get_xml_paths on an archive, an XML file or a directory  *)
(***************************************************************************)
EXTENDS Integers, Sequences, FiniteSets, TLC

VARIABLES
    stop_data,      \* the stop_id column of the table get_stops returned
    db_stops,       \* relation stops of the staging store (stop_id column)
    gtfs_info,      \* the GTFS-info table of the document (sequence of rows)
    stop_times,     \* result of get_stop_times, or NotRun
    trips,          \* result of get_trips, or NotRun
    db_stop_times,  \* relation stop_times of the staging store
    db_trips,       \* relation trips of the staging store
    ppc,            \* position inside process_file (projector part)
    vj_table,       \* the stop_times frame handed to generate_service_id
    vj_pc,          \* "input" before generate_service_id, "done" after
    cached_file,    \* the cache location: Missing, Stale, Complete or Truncated
    tmp,            \* the temporary download file: Missing, Complete or Truncated
    lock,           \* the holders of FileLock(_CACHE_LOCK)
    dpc,            \* position of every worker inside download_cached
    attempt,        \* the loop variable i of every worker (0 before the loop)
    truncations,    \* IncompleteRead errors suppressed so far, per worker
    how,            \* how a worker returned: Fast, Rechecked or Refreshed
    refreshes,      \* renames into the cache location so far
    doc_kind,       \* what every input document holds (see DocKinds)
    num_workers,    \* the num_workers argument of convert
    queue,          \* chunks of documents not yet taken by a worker
    wchunk,         \* per worker: the documents left of its current chunk
    wpc,            \* per worker: position inside process_file
    wrel,           \* per worker: index in Relations of the table being appended
    table_exists,   \* the relations created in the store so far
    store,          \* the store: relation -> documents whose rows it holds, in order
    outcome,        \* per document: Pending, Ok, Skipped or the error raised
    cpc,            \* position of convert: "map", "exported" or "raised"
    export_view,    \* the store as export_to_zip read it
    stop_points,    \* the StopPoints container of the document: present, children
    nested_points,  \* the StopPoint elements under a StopPoints child of the container
    registry,       \* the records read_naptan_stops returns on its first call
    registry_again, \* the records it returns when called again
    cache_fresh,    \* whether the cached registry is inside its freshness window
                    \* when read_naptan_stops is called again
    retry_reads,    \* the calls of read_naptan_stops after a miss: stop_id, downloaded
    stops_result,   \* what get_stops did: strategy, status, table, warnings
    spc,            \* "input" before get_stops, "done" after
    easting,        \* the Easting text of a StopPoint, as a number
    northing,       \* the Northing text of a StopPoint, as a number
    coord_row,      \* the coordinates of the row the inline fallback builds
    mode_elem,      \* the Mode child of a Service element: NoMode, "" or its text
    mode_result,    \* what get_mode returned
    direction_id,   \* the direction token handed to get_direction
    direction_result, \* what get_direction did: status, value
    fdone,          \* the functions applied so far
    route_elems,    \* the Route elements of the document: id, complete
    route_info,     \* the GTFS-info table in the columns get_routes reads
    services,       \* the Mode child of every Service element of the document
    routes_result,  \* what get_routes did: status, table
    rpc,            \* "input" before get_routes, "done" after
    cal_info,       \* the GTFS-info table in the columns get_calendar_dates reads
    holiday_dataset, \* the dates of the bank-holiday dataset
    cal_window,     \* the operative window of the feed: start, end
    cal_result,     \* what get_calendar_dates did: status, table, warnings
    has_stop_times, \* whether get_stop_times returned rows for the document
    cal_appended,   \* the relations process_file appended for the document, in order
    db_calendar_dates, \* relation calendar_dates of the staging store
    calpc,          \* "input", "append" after get_calendar_dates, then "done"
    exp_store,      \* the staging store read by the export: relation -> rows
    exp_appends,    \* the documents appended to exp_store so far
    exp_result,     \* what generate_gtfs_export did: status, tables
    epc,            \* "append" while documents are appended, "done" after the export
    operators,      \* the Operator elements of the document: id, name
    agency_result,  \* the table get_agency returned
    apc,            \* "input" before get_agency, "done" after
    input_files,    \* the input_files argument of create_workers
    worker_cnt,     \* the worker_cnt argument of create_workers
    workloads,      \* the input_files of the workloads create_workers returned
    wkpc,           \* "input" before create_workers, "done" after
    path_input,     \* the path handed to get_xml_paths: kind, xml files, archives
    path_result,    \* what get_xml_paths did: status, items
    xpc             \* "input" before get_xml_paths, "done" after

projVars == <<stop_data, db_stops, gtfs_info, stop_times, trips, db_stop_times,
              db_trips, ppc>>

svcVars == <<vj_table, vj_pc>>

cacheVars == <<cached_file, tmp, lock, dpc, attempt, truncations, how, refreshes>>

convVars == <<doc_kind, num_workers, queue, wchunk, wpc, wrel, table_exists,
              store, outcome, cpc, export_view>>

stopVars == <<stop_points, nested_points, registry, registry_again, cache_fresh,
              retry_reads, stops_result, spc>>

fieldVars == <<easting, northing, coord_row, mode_elem, mode_result, direction_id,
               direction_result, fdone>>

routeVars == <<route_elems, route_info, services, routes_result, rpc>>

calVars == <<cal_info, holiday_dataset, cal_window, cal_result, has_stop_times,
             cal_appended, db_calendar_dates, calpc>>

expVars == <<exp_store, exp_appends, exp_result, epc>>

agencyVars == <<operators, agency_result, apc>>

distVars == <<input_files, worker_cnt, workloads, wkpc>>

pathVars == <<path_input, path_result, xpc>>

laterVars == <<expVars, agencyVars, distVars, pathVars>>

vars == <<projVars, svcVars, cacheVars, convVars, stopVars, fieldVars, routeVars,
          calVars, laterVars>>

\* What the actions of one specification leave alone: the other parts.
projOthers == <<svcVars, cacheVars, convVars, stopVars, fieldVars, routeVars,
                calVars, laterVars>>
svcOthers == <<projVars, cacheVars, convVars, stopVars, fieldVars, routeVars,
               calVars, laterVars>>
cacheOthers == <<projVars, svcVars, convVars, stopVars, fieldVars, routeVars,
                 calVars, laterVars>>
convOthers == <<projVars, svcVars, cacheVars, stopVars, fieldVars, routeVars,
                calVars, laterVars>>
stopOthers == <<projVars, svcVars, cacheVars, convVars, fieldVars, routeVars,
                calVars, laterVars>>
fieldOthers == <<projVars, svcVars, cacheVars, convVars, stopVars, routeVars,
                 calVars, laterVars>>
routeOthers == <<projVars, svcVars, cacheVars, convVars, stopVars, fieldVars,
                 calVars, laterVars>>
calOthers == <<projVars, svcVars, cacheVars, convVars, stopVars, fieldVars,
               routeVars, laterVars>>
expOthers ==
    <<projVars, svcVars, cacheVars, convVars, stopVars, fieldVars, routeVars,
      calVars, agencyVars, distVars, pathVars>>
agencyOthers ==
    <<projVars, svcVars, cacheVars, convVars, stopVars, fieldVars, routeVars,
      calVars, expVars, distVars, pathVars>>
distOthers ==
    <<projVars, svcVars, cacheVars, convVars, stopVars, fieldVars, routeVars,
      calVars, expVars, agencyVars, pathVars>>
pathOthers ==
    <<projVars, svcVars, cacheVars, convVars, stopVars, fieldVars, routeVars,
      calVars, expVars, agencyVars, distVars>>

NotRun == "NotRun"

(***************************************************************************)
(* Bounds of the projector model.                                          *)
(***************************************************************************)
MaxRows == 4

TripIds == {1, 2}
StopSequences == {1, 2}
StopIds == {"s1", "s2"}
RouteIds == {"r1"}
ServiceIds == {"v1"}

\* One GTFS-info row (one stop visit of one vehicle journey).  Arrival and
\* departure time and the timepoint flag are carried by stop_sequence here:
\* two rows of a trip with equal stop_id and stop_sequence are exact
\* duplicates in every stop_times column.
InfoRows ==
    [trip_id : TripIds, stop_id : StopIds, stop_sequence : StopSequences,
     route_id : RouteIds, service_id : ServiceIds]

RECURSIVE SeqsUpTo(_, _)
SeqsUpTo(S, n) ==
    IF n = 0 THEN {<<>>}
    ELSE LET shorter == SeqsUpTo(S, n - 1)
         IN  shorter \cup {Append(s, x) : s \in {t \in shorter : Len(t) = n - 1}, x \in S}

(***************************************************************************)
(* pandas helpers, as the projectors use them.                             *)
(***************************************************************************)
\* The rows of s whose key (keys[i] is the key of s[i]) did not occur at an
\* earlier index, in the original order: "keep the first occurrence".
RECURSIVE KeepFirst(_, _, _)
KeepFirst(s, keys, n) ==
    IF n = 0 THEN <<>>
    ELSE LET front == KeepFirst(s, keys, n - 1)
         IN  IF \E j \in 1..(n - 1) : keys[j] = keys[n]
             THEN front ELSE Append(front, s[n])

\* DataFrame.drop_duplicates(): the key of a row is the whole row.
DropDuplicates(s) == KeepFirst(s, s, Len(s))

\* gtfs_info[stop_times_cols]
StopTimesCols(row) ==
    [trip_id |-> row.trip_id, stop_id |-> row.stop_id,
     stop_sequence |-> row.stop_sequence]

\* The rows of one group of groupby("trip_id"), in table order.
Group(table, t) == SelectSeq(table, LAMBDA r : r.trip_id = t)

SetMin(S) == CHOOSE x \in S : \A y \in S : x <= y

\* The group test with the threshold off by one: a single row is kept too.
KeepGroupAny(group) == Len(group) >= 1

\* "if len(group) > 1": the group is exported.
KeepGroup(group) == Len(group) > 1

\* The loop over groupby("trip_id"): groups come in ascending key order and
\* a group is concatenated to the result only when len(group) > 1.
RECURSIVE FilterGroups(_, _)
FilterGroups(table, keys) ==
    IF keys = {} THEN <<>>
    ELSE LET t == SetMin(keys)
             group == Group(table, t)
         IN  (IF KeepGroup(group) THEN group ELSE <<>>)
                 \o FilterGroups(table, keys \ {t})

get_stop_times(info) ==
    LET selected == [i \in 1..Len(info) |-> StopTimesCols(info[i])]
        deduped == DropDuplicates(selected)
        keys == {deduped[i].trip_id : i \in 1..Len(deduped)}
    IN  FilterGroups(deduped, keys)

TripKey(row) == <<row.route_id, row.service_id, row.trip_id>>

TripCols(row) ==
    [route_id |-> row.route_id, service_id |-> row.service_id,
     trip_id |-> row.trip_id]

get_trips(info) ==
    LET keys == [i \in 1..Len(info) |-> TripKey(info[i])]
        deduped == KeepFirst(info, keys, Len(info))
    IN  [i \in 1..Len(deduped) |-> TripCols(deduped[i])]

(***************************************************************************)
(* SpecProject: one document through the projectors of process_file and    *)
(* the conditional append to the store.                                    *)
(***************************************************************************)
ProjIdle ==
    /\ stop_data = {}
    /\ db_stops = {}
    /\ gtfs_info = <<>>
    /\ stop_times = NotRun
    /\ trips = NotRun
    /\ db_stop_times = <<>>
    /\ db_trips = <<>>
    /\ ppc = "idle"

SvcIdle ==
    /\ vj_table = <<>>
    /\ vj_pc = "idle"

CacheIdle ==
    /\ cached_file = "Missing"
    /\ tmp = "Missing"
    /\ lock = {}
    /\ dpc = <<>>
    /\ attempt = <<>>
    /\ truncations = <<>>
    /\ how = <<>>
    /\ refreshes = 0

ConvIdle ==
    /\ doc_kind = <<>>
    /\ num_workers = 0
    /\ queue = <<>>
    /\ wchunk = <<>>
    /\ wpc = <<>>
    /\ wrel = <<>>
    /\ table_exists = {}
    /\ store = <<>>
    /\ outcome = <<>>
    /\ cpc = "idle"
    /\ export_view = <<>>

StopIdle ==
    /\ stop_points = [present |-> FALSE, children |-> <<>>]
    /\ nested_points = <<>>
    /\ registry = <<>>
    /\ registry_again = <<>>
    /\ cache_fresh = TRUE
    /\ retry_reads = <<>>
    /\ stops_result = NotRun
    /\ spc = "idle"

FieldIdle ==
    /\ easting = 0
    /\ northing = 0
    /\ coord_row = [detected_epsg |-> 0, stop_lon |-> 0, stop_lat |-> 0]
    /\ mode_elem = "NoMode"
    /\ mode_result = 0
    /\ direction_id = ""
    /\ direction_result = [status |-> NotRun, value |-> 0]
    /\ fdone = {}

RouteIdle ==
    /\ route_elems = <<>>
    /\ route_info = <<>>
    /\ services = <<>>
    /\ routes_result = [status |-> NotRun, table |-> <<>>]
    /\ rpc = "idle"

CalIdle ==
    /\ cal_info = <<>>
    /\ holiday_dataset = {}
    /\ cal_window = [start |-> 0, end |-> 0]
    /\ cal_result = [status |-> NotRun, table |-> <<>>, warnings |-> {}]
    /\ has_stop_times = FALSE
    /\ cal_appended = <<>>
    /\ db_calendar_dates = <<>>
    /\ calpc = "idle"

ExpIdle ==
    /\ exp_store = <<>>
    /\ exp_appends = 0
    /\ exp_result = [status |-> NotRun, tables |-> <<>>]
    /\ epc = "idle"

AgencyIdle ==
    /\ operators = <<>>
    /\ agency_result = [status |-> NotRun, table |-> <<>>]
    /\ apc = "idle"

DistIdle ==
    /\ input_files = <<>>
    /\ worker_cnt = 0
    /\ workloads = <<>>
    /\ wkpc = "idle"

PathIdle ==
    /\ path_input = [kind |-> "none", xml |-> {}, other |-> {}, zips |-> {}]
    /\ path_result = [status |-> NotRun, items |-> {}]
    /\ xpc = "idle"

\* The parts that the specifications of the other parts leave idle.
LaterIdle == ExpIdle /\ AgencyIdle /\ DistIdle /\ PathIdle

EarlierIdle ==
    /\ ProjIdle
    /\ SvcIdle
    /\ CacheIdle
    /\ ConvIdle
    /\ StopIdle
    /\ FieldIdle
    /\ RouteIdle
    /\ CalIdle

ProjInit ==
    /\ LaterIdle
    /\ SvcIdle
    /\ CacheIdle
    /\ ConvIdle
    /\ StopIdle
    /\ FieldIdle
    /\ RouteIdle
    /\ CalIdle
    /\ gtfs_info \in SeqsUpTo(InfoRows, MaxRows)
    /\ stop_times = NotRun
    /\ trips = NotRun
    /\ db_stop_times = <<>>
    /\ db_trips = <<>>
    /\ stop_data = {}
    /\ db_stops = {}
    /\ ppc = "get_stops"

\* process_file, "stop_data = get_stops(data)": the table holds the stops of
\* the document that the registry (or the document itself) resolved, which
\* is any part of the stops the journeys of the document visit.
GetStopData ==
    /\ ppc = "get_stops"
    /\ stop_data' \in SUBSET {gtfs_info[i].stop_id : i \in 1..Len(gtfs_info)}
    /\ ppc' = "get_stop_times"
    /\ UNCHANGED <<db_stops, gtfs_info, stop_times, trips, db_stop_times, db_trips,
                   projOthers>>

GetStopTimes ==
    /\ ppc = "get_stop_times"
    /\ stop_times' = get_stop_times(gtfs_info)
    /\ ppc' = "get_trips"
    /\ UNCHANGED <<stop_data, db_stops, gtfs_info, trips, db_stop_times, db_trips,
                   projOthers>>

GetTrips ==
    /\ ppc = "get_trips"
    /\ trips' = get_trips(gtfs_info)
    /\ ppc' = "append"
    /\ UNCHANGED <<stop_data, db_stops, gtfs_info, stop_times, db_stop_times, db_trips,
                   projOthers>>

\* process_file, "with sqlite3.connect(...)": the tables go to the store
\* only when stop_times has rows.
AppendTables ==
    /\ ppc = "append"
    /\ Len(stop_times) > 0
    /\ db_stop_times' = db_stop_times \o stop_times
    /\ db_stops' = db_stops \cup stop_data
    /\ db_trips' = db_trips \o trips
    /\ ppc' = "done"
    /\ UNCHANGED <<stop_data, gtfs_info, stop_times, trips, projOthers>>

SkipFile ==
    /\ ppc = "append"
    /\ Len(stop_times) = 0
    /\ ppc' = "done"
    /\ UNCHANGED <<stop_data, db_stops, gtfs_info, stop_times, trips, db_stop_times,
                   db_trips, projOthers>>

ProjNext == GetStopData \/ GetStopTimes \/ GetTrips \/ AppendTables \/ SkipFile

SpecProject == ProjInit /\ [][ProjNext]_vars

(***************************************************************************)
(* Properties of the projectors.                                           *)
(***************************************************************************)
\* The distinct stop visits (rows in the stop_times columns) that the
\* GTFS-info table holds for a trip.
DistinctVisits(info, t) ==
    {StopTimesCols(info[i]) : i \in {j \in 1..Len(info) : info[j].trip_id = t}}

\* Index of the first GTFS-info row that projects to the stop visit v.
FirstIndex(info, v) ==
    SetMin({i \in 1..Len(info) : StopTimesCols(info[i]) = v})

\* get_stop_times has returned its table.
StopTimesReady == ppc \in {"get_trips", "append", "done"}

\* C1: in the table get_stop_times returns, every trip_id has at least two
\* rows; a trip left with 0 or 1 row after exact duplicates are removed has
\* no row in it, and a trip left with 2 or more rows has exactly those rows,
\* each once, in the order of the GTFS-info table.
C1_StopTimesAtLeastTwoRows ==
    StopTimesReady =>
        \A t \in TripIds :
            LET out == Group(stop_times, t)
                distinct == DistinctVisits(gtfs_info, t)
            IN  /\ Len(out) # 1
                /\ Cardinality(distinct) <= 1 => Len(out) = 0
                /\ Cardinality(distinct) >= 2 =>
                       /\ Len(out) = Cardinality(distinct)
                       /\ {out[i] : i \in 1..Len(out)} = distinct
                       /\ \A i, j \in 1..Len(out) :
                              i < j => FirstIndex(gtfs_info, out[i])
                                          < FirstIndex(gtfs_info, out[j])

\* C1 witness: get_stop_times has run on a table with a duplicated row, in
\* which one trip is left with a single stop visit and is dropped and
\* another trip keeps its two visits.
C1_Witness ==
    /\ StopTimesReady
    /\ Len(gtfs_info) > Cardinality({gtfs_info[i] : i \in 1..Len(gtfs_info)})
    /\ \E t, u \in TripIds :
           /\ Cardinality(DistinctVisits(gtfs_info, t)) = 1
           /\ Len(Group(stop_times, t)) = 0
           /\ Len(Group(stop_times, u)) >= 2

\* C2: after process_file, every trip of the emitted trips table has at
\* least two rows in the emitted stop_times table (so a trip with exactly one
\* stop_time row is in neither table).
C2_EmittedTripsHaveTwoStopTimes ==
    ppc = "done" =>
        \A i \in 1..Len(db_trips) :
            Len(Group(db_stop_times, db_trips[i].trip_id)) >= 2

\* C13: in what process_file wrote to the store, every stop_id of a
\* stop_times row is the stop_id of a stops row: a stop that get_stops left
\* out of the stops table has no stop_times row.
C13_StopTimesReferToStops ==
    ppc = "done" =>
        \A i \in 1..Len(db_stop_times) : db_stop_times[i].stop_id \in db_stops

(***************************************************************************)
(* SpecService: generate_service_id.                                       *)
(***************************************************************************)
MaxJourneys == 2
MaxVisits == 3

JourneyIds == 1..MaxJourneys
Weekdays == {"MoTuWeThFr", "SaSu"}
ServiceRefs == {"SA", "SB"}
StartDates == {"20240101"}
EndDates == {"20240630", "20241231"}

\* The calendar columns of a vehicle journey.
Calendars ==
    [weekdays : Weekdays, service_ref : ServiceRefs,
     start_date : StartDates, end_date : EndDates]

None == "None"

\* One row of the frame: a stop visit of a vehicle journey with the calendar
\* columns of that journey and the service_id column.
VisitRow(vj, cal, sid) ==
    [vehicle_journey_id |-> vj, weekdays |-> cal.weekdays,
     service_ref |-> cal.service_ref, start_date |-> cal.start_date,
     end_date |-> cal.end_date, service_id |-> sid]

\* f"{service_ref}_{start_d}_{end_d}_{daygroup}", as the sequence of its parts.
FormatServiceId(service_ref, start_d, end_d, daygroup) ==
    <<service_ref, "_", start_d, "_", end_d, "_", daygroup>>

\* cgroup[col].unique()[0]: the value of the first row of the group.
FirstOfGroup(cgroup) == cgroup[1]

\* The service_id the loop over calendar_groups assigns to the journeys of
\* one weekday group.
GroupServiceId(cgroup) ==
    LET first == FirstOfGroup(cgroup)
    IN  FormatServiceId(first.service_ref, first.start_date, first.end_date,
                        first.weekdays)

generate_service_id(table) ==
    LET cleared == [i \in 1..Len(table) |-> [table[i] EXCEPT !.service_id = None]]
        vjkeys == [i \in 1..Len(cleared) |-> cleared[i].vehicle_journey_id]
        calendar_info == KeepFirst(cleared, vjkeys, Len(cleared))
        CGroup(w) == SelectSeq(calendar_info, LAMBDA r : r.weekdays = w)
        GroupOf(vj) ==
            CHOOSE w \in Weekdays :
                \E k \in 1..Len(CGroup(w)) : CGroup(w)[k].vehicle_journey_id = vj
    IN  [i \in 1..Len(cleared) |->
            [cleared[i] EXCEPT
                !.service_id = GroupServiceId(CGroup(GroupOf(cleared[i].vehicle_journey_id)))]]

\* The frames the extraction hands over: every row of a vehicle journey
\* carries that journey's calendar columns.
SvcInit ==
    /\ LaterIdle
    /\ ProjIdle
    /\ CacheIdle
    /\ ConvIdle
    /\ StopIdle
    /\ FieldIdle
    /\ RouteIdle
    /\ CalIdle
    /\ \E cal \in [JourneyIds -> Calendars] :
       \E order \in SeqsUpTo(JourneyIds, MaxVisits) :
           vj_table = [i \in 1..Len(order) |-> VisitRow(order[i], cal[order[i]], None)]
    /\ vj_pc = "input"

GenerateServiceId ==
    /\ vj_pc = "input"
    /\ vj_table' = generate_service_id(vj_table)
    /\ vj_pc' = "done"
    /\ UNCHANGED svcOthers

SvcNext == GenerateServiceId

SpecService == SvcInit /\ [][SvcNext]_vars

\* The four values a service_id is composed from.
CalendarOf(row) ==
    <<row.service_ref, row.start_date, row.end_date, row.weekdays>>

\* C4: after generate_service_id two rows carry the same service_id exactly
\* when their journeys have the same service reference, start date, end date
\* and weekday pattern, and every service_id is composed from the four
\* values of its own journey.
C4_ServiceIdIffSameCalendar ==
    vj_pc = "done" =>
        /\ \A i, j \in 1..Len(vj_table) :
               (vj_table[i].service_id = vj_table[j].service_id)
                   <=> (CalendarOf(vj_table[i]) = CalendarOf(vj_table[j]))
        /\ \A i \in 1..Len(vj_table) :
               vj_table[i].service_id =
                   FormatServiceId(vj_table[i].service_ref, vj_table[i].start_date,
                                   vj_table[i].end_date, vj_table[i].weekdays)

(***************************************************************************)
(* SpecCache: NumWorkers processes call download_cached for the same file  *)
(* while the cached copy is missing or older than max_age.                 *)
(***************************************************************************)
NumWorkers == 2

\* "for i in range(1, 4)"
MaxAttempts == 3

Workers == 1..NumWorkers

\* The lock file with no holder.
NoWorker == {}

\* cached_file_is_good() that is never satisfied.
cached_file_never_good(file) == FALSE

\* cached_file_is_good(): the file exists and its mtime is at most max_age
\* old.  A file renamed into place during this run is fresh whatever it holds.
cached_file_is_good(file) == file \in {"Complete", "Truncated"}

\* "with FileLock(_CACHE_LOCK)": the lock can be taken.
LockFree(holder) == holder = NoWorker

\* download_cached without the second check: whoever gets the lock downloads.
RecheckNever(file) == FALSE

\* The check made after the lock has been taken ("if cached_file_is_good():
\* return cached_file").
Recheck(file) == cached_file_is_good(file)

CacheInit ==
    /\ LaterIdle
    /\ ProjIdle
    /\ SvcIdle
    /\ ConvIdle
    /\ StopIdle
    /\ FieldIdle
    /\ RouteIdle
    /\ CalIdle
    /\ cached_file \in {"Missing", "Stale"}
    /\ tmp = "Missing"
    /\ lock = NoWorker
    /\ dpc = [w \in Workers |-> "check"]
    /\ attempt = [w \in Workers |-> 0]
    /\ truncations = [w \in Workers |-> 0]
    /\ how = [w \in Workers |-> "None"]
    /\ refreshes = 0

\* "if not cached_file_is_good():" outside the lock.
CheckCache(w) ==
    /\ dpc[w] = "check"
    /\ IF cached_file_is_good(cached_file)
       THEN /\ dpc' = [dpc EXCEPT ![w] = "returned"]
            /\ how' = [how EXCEPT ![w] = "Fast"]
       ELSE /\ dpc' = [dpc EXCEPT ![w] = "acquire"]
            /\ how' = how
    /\ UNCHANGED <<cached_file, tmp, lock, attempt, truncations, refreshes, cacheOthers>>

\* "with FileLock(_CACHE_LOCK):" blocks until the lock is free.
AcquireLock(w) ==
    /\ dpc[w] = "acquire"
    /\ LockFree(lock)
    /\ lock' = {w}
    /\ dpc' = [dpc EXCEPT ![w] = "recheck"]
    /\ UNCHANGED <<cached_file, tmp, attempt, truncations, how, refreshes, cacheOthers>>

\* The second check, under the lock; a good cache is returned and the lock
\* released, otherwise the retrieval loop starts with i = 1.
RecheckCache(w) ==
    /\ dpc[w] = "recheck"
    /\ IF Recheck(cached_file)
       THEN /\ dpc' = [dpc EXCEPT ![w] = "returned"]
            /\ how' = [how EXCEPT ![w] = "Rechecked"]
            /\ lock' = NoWorker
            /\ attempt' = attempt
       ELSE /\ dpc' = [dpc EXCEPT ![w] = "retrieve"]
            /\ attempt' = [attempt EXCEPT ![w] = 1]
            /\ UNCHANGED <<how, lock>>
    /\ UNCHANGED <<cached_file, tmp, truncations, refreshes, cacheOthers>>

\* urlretrieve(url, tmp) succeeds: tmp holds the whole file, "break".
RetrieveOk(w) ==
    /\ dpc[w] = "retrieve"
    /\ tmp' = "Complete"
    /\ dpc' = [dpc EXCEPT ![w] = "rename"]
    /\ UNCHANGED <<cached_file, lock, attempt, truncations, how, refreshes, cacheOthers>>

\* urlretrieve raises http.client.IncompleteRead, which contextlib.suppress
\* swallows.  The error comes either while the body is copied (tmp is left
\* with the part received) or before tmp is opened (tmp is as it was).  The
\* loop goes on with the next i, or ends after i = 3.
RetrieveTruncated(w) ==
    /\ dpc[w] = "retrieve"
    /\ tmp' \in {"Truncated", tmp}
    /\ truncations' = [truncations EXCEPT ![w] = @ + 1]
    /\ IF attempt[w] < MaxAttempts
       THEN /\ attempt' = [attempt EXCEPT ![w] = @ + 1]
            /\ dpc' = dpc
       ELSE /\ attempt' = attempt
            /\ dpc' = [dpc EXCEPT ![w] = "rename"]
    /\ UNCHANGED <<cached_file, lock, how, refreshes, cacheOthers>>

\* urlretrieve raises any other error (URLError, ...): it leaves the loop,
\* the with block releases the lock and the caller sees the error.
RetrieveError(w) ==
    /\ dpc[w] = "retrieve"
    /\ dpc' = [dpc EXCEPT ![w] = "raised"]
    /\ lock' = NoWorker
    /\ UNCHANGED <<cached_file, tmp, attempt, truncations, how, refreshes, cacheOthers>>

\* "tmp.rename(cached_file)", then the lock is released and cached_file
\* returned; a missing tmp makes rename raise FileNotFoundError.
RenameIntoPlace(w) ==
    /\ dpc[w] = "rename"
    /\ lock' = NoWorker
    /\ IF tmp = "Missing"
       THEN /\ dpc' = [dpc EXCEPT ![w] = "raised"]
            /\ UNCHANGED <<cached_file, tmp, how, refreshes, cacheOthers>>
       ELSE /\ cached_file' = tmp
            /\ tmp' = "Missing"
            /\ refreshes' = refreshes + 1
            /\ dpc' = [dpc EXCEPT ![w] = "returned"]
            /\ how' = [how EXCEPT ![w] = "Refreshed"]
    /\ UNCHANGED <<attempt, truncations, cacheOthers>>

CacheNext ==
    \E w \in Workers :
        \/ CheckCache(w)
        \/ AcquireLock(w)
        \/ RecheckCache(w)
        \/ RetrieveOk(w)
        \/ RetrieveTruncated(w)
        \/ RetrieveError(w)
        \/ RenameIntoPlace(w)

SpecCache == CacheInit /\ [][CacheNext]_vars

\* The download/rename-into-place section of download_cached.
InSection(w) == dpc[w] \in {"recheck", "retrieve", "rename"}

Finished(w) == dpc[w] \in {"returned", "raised"}

\* C5: at most one worker at a time is inside the download/rename-into-place
\* section, at most one refresh is performed in total, no worker retrieves
\* after the refresh (a worker that takes the lock afterwards re-checks and
\* returns), and a worker that returns the path returns a refreshed cache:
\* when a worker has returned, exactly one refresh has been performed.
C5_OneWorkerOneDownload ==
    /\ \A v, w \in Workers : (InSection(v) /\ InSection(w)) => v = w
    /\ refreshes <= 1
    /\ \A w \in Workers : dpc[w] \in {"retrieve", "rename"} => refreshes = 0
    /\ \A w \in Workers : dpc[w] = "returned" => refreshes = 1
    /\ Cardinality({w \in Workers : how[w] = "Refreshed"}) = refreshes

\* C5 witness: two workers found the cache bad, one refreshed it and the
\* other took the lock afterwards, re-checked and returned.
C5_Witness ==
    \E v, w \in Workers :
        /\ how[v] = "Refreshed"
        /\ how[w] = "Rechecked"
        /\ dpc[w] = "returned"

\* C6: at most 3 retrieval attempts per refresh, none after a success; and
\* when all 3 attempts were truncated the worker ends with an error, no
\* truncated file is in the cache location and the path is not returned.
C6_TruncatedRefreshFails ==
    \A w \in Workers :
        /\ attempt[w] <= MaxAttempts
        /\ truncations[w] = MaxAttempts =>
               /\ cached_file # "Truncated"
               /\ dpc[w] # "returned"
               /\ Finished(w) => dpc[w] = "raised"

(***************************************************************************)
(* SpecStops: get_stops on one document.                                   *)
(***************************************************************************)
MaxChildren == 2
MaxNested == 1
MaxRegistry == 2

NoRef == "NoRef"

\* None, where an element is looked for.
NoElement == [tag |-> "None", nsub |-> FALSE, ref |-> NoRef, coords |-> FALSE]

\* The document without a StopPoints container.
NoContainer == [present |-> FALSE, children |-> <<>>]

\* A child element of the StopPoints container:
\*   tag    the element name
\*   nsub   whether the element has sub-elements (len(element) > 0)
\*   ref    StopPoint: the text of its AtcoCode; AnnotatedStopPointRef: the
\*          text of its StopPointRef, NoRef when it has none
\*   coords StopPoint: whether Place/Location holds a readable coordinate pair
StopPointElements ==
    [tag : {"StopPoint"}, nsub : {TRUE}, ref : StopIds, coords : BOOLEAN]

AnnotatedRefElements ==
    [tag : {"AnnotatedStopPointRef"}, nsub : {TRUE}, ref : StopIds \cup {NoRef},
     coords : {FALSE}]
        \cup {[tag |-> "AnnotatedStopPointRef", nsub |-> FALSE, ref |-> NoRef,
                coords |-> FALSE]}

OtherElements == {[tag |-> "Extensions", nsub |-> FALSE, ref |-> NoRef, coords |-> FALSE]}

ChildElements == StopPointElements \cup AnnotatedRefElements \cup OtherElements

\* A registry record: rec tells the records of one stop_id apart.
RegistryRecords(n) == [stop_id : StopIds, rec : 1..n, source : {"NaPTAN"}]

\* The registries of at most n records, record i carrying rec = i.
Registries(n) ==
    {r \in SeqsUpTo(RegistryRecords(n), n) : \A i \in 1..Len(r) : r[i].rec = i}

\* element.find(tag): the first child with the tag, NoElement for None.
Find(children, tag) ==
    IF \E i \in 1..Len(children) : children[i].tag = tag
    THEN children[SetMin({i \in 1..Len(children) : children[i].tag = tag})]
    ELSE NoElement

\* bool(element): an Element is true when it has sub-elements.
Truthy(element) == element # NoElement /\ element.nsub

\* naptan_stops.loc[naptan_stops["stop_id"] == stop_id]
Lookup(naptan_stops, stop_id) ==
    SelectSeq(naptan_stops, LAMBDA r : r.stop_id = stop_id)

Result(strategy, status, table, warnings) ==
    [strategy |-> strategy, status |-> status, table |-> table, warnings |-> warnings]

\* The row built from the StopPoint element when the registry has no record.
InlineRow(point) == [stop_id |-> point.ref, rec |-> 0, source |-> "Document"]

\* The loop of _get_tfl_style_stops over the StopPoint elements still to be
\* visited, with the registry frame, the rows and the warnings so far.
RECURSIVE TflLoop(_, _, _, _, _)
TflLoop(points, naptan_stops, again, table, warnings) ==
    IF points = <<>> THEN Result("inline", "ok", table, warnings)
    ELSE LET point == Head(points)
             stop == Lookup(naptan_stops, point.ref)
             retried == Lookup(again, point.ref)
         IN  CASE Len(stop) = 0 /\ Len(retried) = 0 /\ ~point.coords ->
                      TflLoop(Tail(points), again, again, table,
                              Append(warnings, point.ref))
               [] Len(stop) = 0 /\ Len(retried) = 0 /\ point.coords ->
                      TflLoop(Tail(points), again, again,
                              Append(table, InlineRow(point)), warnings)
               [] Len(stop) = 0 /\ Len(retried) > 0 ->
                      TflLoop(Tail(points), again, again, table \o retried, warnings)
               [] Len(stop) > 1 ->
                      Result("inline", "DuplicateStop", table, warnings)
               [] OTHER ->
                      TflLoop(Tail(points), naptan_stops, again, table \o stop, warnings)

\* _get_tfl_style_stops(stop_points): the loop runs over
\* stop_points.iterfind("./txc:StopPoints/txc:StopPoint"), the StopPoint
\* elements below a StopPoints child of the container it is given.
get_tfl_style_stops(nested, naptan_stops, again) ==
    TflLoop(nested, naptan_stops, again, <<>>, <<>>)

\* _get_txc_21_style_stops(stop_points): the stop ids of all
\* AnnotatedStopPointRef children (an assertion fails on a child without a
\* StopPointRef), then the registry rows whose stop_id is among them.
get_txc_21_style_stops(children, naptan_stops) ==
    LET refs == SelectSeq(children, LAMBDA c : c.tag = "AnnotatedStopPointRef")
        stop_ids == {refs[i].ref : i \in 1..Len(refs)}
    IN  IF NoRef \in stop_ids
        THEN Result("reference", "AssertionError", <<>>, <<>>)
        ELSE Result("reference", "ok",
                    SelectSeq(naptan_stops, LAMBDA r : r.stop_id \in stop_ids), <<>>)

\* The test that selects the reference strategy:
\* "elif stop_points.find("txc:AnnotatedStopPointRef", NS):".
HasAnnotatedRef(children) == Truthy(Find(children, "AnnotatedStopPointRef"))

get_stops(container, nested, naptan_stops, again) ==
    IF ~container.present
    THEN Result("none", "SchemaMismatch", <<>>, <<>>)
    ELSE IF Find(container.children, "StopPoint") # NoElement
    THEN get_tfl_style_stops(nested, naptan_stops, again)
    ELSE IF HasAnnotatedRef(container.children)
    THEN get_txc_21_style_stops(container.children, naptan_stops)
    ELSE Result("none", "SchemaMismatch", <<>>, <<>>)

\* read_naptan_stops() called again after a miss: download_cached(url,
\* "Stops.csv") with the default max_age downloads only when the cached file
\* is missing or older than max_age; a download leaves a fresh file.
ReadAgain(stop_id, fresh) == [stop_id |-> stop_id, downloaded |-> ~fresh]

\* The calls of read_naptan_stops that the loop of _get_tfl_style_stops makes
\* after a miss ("if len(stop) == 0"), in order.
RECURSIVE TflRetries(_, _, _, _)
TflRetries(points, naptan_stops, again, fresh) ==
    IF points = <<>> THEN <<>>
    ELSE LET point == Head(points)
             stop == Lookup(naptan_stops, point.ref)
         IN  IF Len(stop) = 0
             THEN <<ReadAgain(point.ref, fresh)>>
                      \o TflRetries(Tail(points), again, again, TRUE)
             ELSE IF Len(stop) > 1 THEN <<>>
             ELSE TflRetries(Tail(points), naptan_stops, again, fresh)

\* The calls of read_naptan_stops after a miss during get_stops: the
\* reference strategy reads the registry once and never again.
RetryReads(container, nested, naptan_stops, again, fresh) ==
    IF container.present /\ Find(container.children, "StopPoint") # NoElement
    THEN TflRetries(nested, naptan_stops, again, fresh)
    ELSE <<>>

StopsInit ==
    /\ LaterIdle
    /\ ProjIdle
    /\ SvcIdle
    /\ CacheIdle
    /\ ConvIdle
    /\ FieldIdle
    /\ RouteIdle
    /\ CalIdle
    /\ stop_points \in {NoContainer}
           \cup [present : {TRUE}, children : SeqsUpTo(ChildElements, MaxChildren)]
    /\ nested_points \in SeqsUpTo(StopPointElements, MaxNested)
    /\ ~stop_points.present => nested_points = <<>>
    /\ registry \in Registries(MaxRegistry)
    /\ registry_again \in Registries(MaxRegistry)
    /\ cache_fresh \in BOOLEAN
    /\ cache_fresh => registry_again = registry
    /\ retry_reads = <<>>
    /\ stops_result = NotRun
    /\ spc = "input"

GetStops ==
    /\ spc = "input"
    /\ stops_result' = get_stops(stop_points, nested_points, registry, registry_again)
    /\ retry_reads' = RetryReads(stop_points, nested_points, registry, registry_again,
                                 cache_fresh)
    /\ spc' = "done"
    /\ UNCHANGED <<stop_points, nested_points, registry, registry_again, cache_fresh,
                   stopOthers>>

StopsNext == GetStops

SpecStops == StopsInit /\ [][StopsNext]_vars

\* Whether the container has a child with the tag.
HasChild(tag) ==
    /\ stop_points.present
    /\ \E i \in 1..Len(stop_points.children) : stop_points.children[i].tag = tag

\* C9: get_stops selects the inline strategy exactly when StopPoints has a
\* StopPoint child, the reference strategy exactly when it has none but has
\* an AnnotatedStopPointRef child (whatever that child holds), and raises a
\* schema mismatch exactly when neither child is present or StopPoints is
\* missing.
C9_StrategyByChildPresence ==
    spc = "done" =>
        /\ stops_result.strategy = "inline" <=> HasChild("StopPoint")
        /\ stops_result.strategy = "reference"
               <=> (~HasChild("StopPoint") /\ HasChild("AnnotatedStopPointRef"))
        /\ stops_result.status = "SchemaMismatch"
               <=> (~HasChild("StopPoint") /\ ~HasChild("AnnotatedStopPointRef"))

\* The stop ids the chosen strategy looks up in the registry.
Referenced ==
    IF stops_result.strategy = "reference"
    THEN {stop_points.children[i].ref :
            i \in {j \in 1..Len(stop_points.children) :
                      stop_points.children[j].tag = "AnnotatedStopPointRef"}}
    ELSE IF stops_result.strategy = "inline"
    THEN {nested_points[i].ref : i \in 1..Len(nested_points)}
    ELSE {}

\* C10: stop resolution never returns a table with two registry records of
\* one stop_id, and when the registry read first holds more than one record
\* for a referenced stop_id it raises instead of returning a table.
C10_DuplicateRegistryRecordRaises ==
    spc = "done" =>
        /\ stops_result.status = "ok" =>
               \A i, j \in 1..Len(stops_result.table) :
                   (/\ stops_result.table[i].stop_id = stops_result.table[j].stop_id
                    /\ stops_result.table[i].source = "NaPTAN"
                    /\ stops_result.table[j].source = "NaPTAN") => i = j
        /\ (\E s \in Referenced : Len(Lookup(registry, s)) > 1)
               => stops_result.status # "ok"

\* The referenced stop ids that neither read of the registry finds.
NotInRegistry ==
    {s \in Referenced : Len(Lookup(registry, s)) = 0 /\ Len(Lookup(registry_again, s)) = 0}

\* C11: when the lookup of a referenced stop finds no match, the resolver
\* reads the registry again for that stop and this read replaces the cached
\* copy by a new download, also when the copy is inside its freshness window.
C11_MissForcesRefresh ==
    (spc = "done" /\ stops_result.status = "ok") =>
        \A s \in NotInRegistry :
            \E i \in 1..Len(retry_reads) :
                retry_reads[i].stop_id = s /\ retry_reads[i].downloaded

\* Whether the document gives the stop a usable fallback: the inline
\* strategy with a readable coordinate pair in one of its StopPoint elements.
HasFallback(s) ==
    /\ stops_result.strategy = "inline"
    /\ \E i \in 1..Len(nested_points) : nested_points[i].ref = s /\ nested_points[i].coords

\* C12: a referenced stop that the registry does not hold and that has no
\* usable fallback is named by a warning and is left out of the stops table,
\* and the resolver does not raise because of it.
C12_UnresolvedStopWarned ==
    (spc = "done" /\ stops_result.status = "ok") =>
        \A s \in NotInRegistry :
            ~HasFallback(s) =>
                /\ \E i \in 1..Len(stops_result.warnings) : stops_result.warnings[i] = s
                /\ \A i \in 1..Len(stops_result.table) : stops_result.table[i].stop_id # s

(***************************************************************************)
(* SpecCalendar: get_calendar_dates on the GTFS-info table of one document.*)
(***************************************************************************)
MaxCalRows == 2
MaxDate == 3

CalServiceIds == {"v1", "v2"}
Dates == 1..MaxDate

\* The column non_operative_days: the element names under DaysOfNonOperation
\* joined by "|", here the sequence of the names; get_non_operation_days
\* gives None exactly when there is no name, which is the empty sequence.
NonOperationDays ==
    {<<>>, <<"AllBankHolidays">>, <<"Jan2ndScotland">>, <<"BoxingDay", "ChristmasEve">>}

CalInfoRows == [service_id : CalServiceIds, non_operative_days : NonOperationDays]

\* The keys of _KNOWN_HOLIDAYS.
KNOWN_HOLIDAYS ==
    {"SpringBank", "LateSummerBankHolidayNotScotland", "MayDay", "GoodFriday",
     "EasterMonday", "BoxingDay", "ChristmasDay", "NewYearsDay", "BoxingDayHoliday",
     "ChristmasDayHoliday", "NewYearsDayHoliday"}

\* holiday.endswith("Eve"), on the names that occur.
EndsWithEve(holiday) == holiday \in {"ChristmasEve", "NewYearsEve"}

\* The test that leads to the warning "Did not recognize holiday".
NotRecognized(holiday) ==
    /\ holiday \notin KNOWN_HOLIDAYS
    /\ holiday # "AllBankHolidays"
    /\ ~EndsWithEve(holiday)

\* dropna that drops nothing.
dropna_nothing(info) == info

\* gtfs_info.dropna(subset=["non_operative_days"])
dropna(info) == SelectSeq(info, LAMBDA row : row.non_operative_days # <<>>)

\* The set non_operatives: every name of every value of the column.
non_operatives(info) ==
    UNION {{info[i].non_operative_days[k] : k \in 1..Len(info[i].non_operative_days)} :
              i \in 1..Len(info)}

\* The dates of a set in ascending order.
RECURSIVE Ascending(_)
Ascending(S) ==
    IF S = {} THEN <<>> ELSE <<SetMin(S)>> \o Ascending(S \ {SetMin(S)})

\* get_bank_holiday_dates: the dates of the bank-holiday dataset inside the
\* operative window of the feed.
get_bank_holiday_dates(dataset, window) ==
    Ascending({d \in dataset : window.start <= d /\ d <= window.end})

\* gtfs_info.drop_duplicates(subset=["service_id"])
DropDuplicateServices(info) ==
    KeepFirst(info, [i \in 1..Len(info) |-> info[i].service_id], Len(info))

\* The generator gen_calendar_dates: for every row of the services, for
\* every date, one row with exception_type 2.
gen_calendar_dates(service_rows, bank_holidays) ==
    LET m == Len(bank_holidays)
    IN  [k \in 1..(Len(service_rows) * m) |->
            [service_id |-> service_rows[((k - 1) \div m) + 1].service_id,
             date |-> bank_holidays[((k - 1) % m) + 1],
             exception_type |-> 2]]

get_calendar_dates(info, dataset, window) ==
    LET kept == dropna(info)
        holidays == non_operatives(kept)
        warnings == {h \in holidays : NotRecognized(h)}
    IN  IF holidays = {}
        THEN [status |-> None, table |-> <<>>, warnings |-> warnings]
        ELSE LET bank_holidays == get_bank_holiday_dates(dataset, window)
             IN  IF bank_holidays = <<>>
                 THEN [status |-> None, table |-> <<>>, warnings |-> warnings]
                 ELSE [status |-> "table",
                       table |-> gen_calendar_dates(DropDuplicateServices(kept),
                                                    bank_holidays),
                       warnings |-> warnings]

\* The tables process_file appends before calendar_dates, in its order.
TablesBefore == <<"stop_times", "stops", "routes", "trips", "calendar">>

\* The test before the last append, always true.
AppendsCalendarDatesAlways(calendar_dates) == TRUE

\* "if calendar_dates is not None"
AppendsCalendarDates(calendar_dates) == calendar_dates.status # None

CalInit ==
    /\ LaterIdle
    /\ ProjIdle
    /\ SvcIdle
    /\ CacheIdle
    /\ ConvIdle
    /\ StopIdle
    /\ FieldIdle
    /\ RouteIdle
    /\ cal_info \in SeqsUpTo(CalInfoRows, MaxCalRows)
    /\ holiday_dataset \in SUBSET Dates
    /\ cal_window \in {w \in [start : Dates, end : Dates] : w.start <= w.end}
    /\ cal_result = [status |-> NotRun, table |-> <<>>, warnings |-> {}]
    /\ has_stop_times \in BOOLEAN
    /\ cal_appended = <<>>
    /\ db_calendar_dates = <<>>
    /\ calpc = "input"

GetCalendarDates ==
    /\ calpc = "input"
    /\ cal_result' = get_calendar_dates(cal_info, holiday_dataset, cal_window)
    /\ calpc' = "append"
    /\ UNCHANGED <<cal_info, holiday_dataset, cal_window, has_stop_times, cal_appended,
                   db_calendar_dates, calOthers>>

\* process_file, the with block, when stop_times has rows: the five tables,
\* then calendar_dates when get_calendar_dates returned a table.
AppendCalendarTables ==
    /\ calpc = "append"
    /\ has_stop_times
    /\ IF AppendsCalendarDates(cal_result)
       THEN /\ cal_appended' = TablesBefore \o <<"calendar_dates">>
            /\ db_calendar_dates' = db_calendar_dates \o cal_result.table
       ELSE /\ cal_appended' = TablesBefore
            /\ UNCHANGED db_calendar_dates
    /\ calpc' = "done"
    /\ UNCHANGED <<cal_info, holiday_dataset, cal_window, cal_result, has_stop_times,
                   calOthers>>

\* process_file, the else branch: nothing is appended.
SkipCalendarTables ==
    /\ calpc = "append"
    /\ ~has_stop_times
    /\ calpc' = "done"
    /\ UNCHANGED <<cal_info, holiday_dataset, cal_window, cal_result, has_stop_times,
                   cal_appended, db_calendar_dates, calOthers>>

CalNext == GetCalendarDates \/ AppendCalendarTables \/ SkipCalendarTables

SpecCalendar == CalInit /\ [][CalNext]_vars

\* The service ids with a GTFS-info row that carries non-operation tokens.
ServicesWithTokens ==
    {cal_info[i].service_id :
        i \in {j \in 1..Len(cal_info) : cal_info[j].non_operative_days # <<>>}}

\* The bank-holiday dates inside the operative window.
HolidaysInWindow ==
    {d \in holiday_dataset : cal_window.start <= d /\ d <= cal_window.end}

\* C18: a table returned by get_calendar_dates holds exactly one row for
\* every pair of a service_id whose GTFS-info rows carry non-operation
\* tokens and a bank-holiday date inside the operative window, every row
\* with exception_type 2, and no row for any other service.
C18_OneRowPerServiceAndHoliday ==
    (calpc = "done" /\ cal_result.status = "table") =>
        LET table == cal_result.table
        IN  /\ \A s \in ServicesWithTokens : \A d \in HolidaysInWindow :
                   Cardinality({i \in 1..Len(table) :
                                   table[i].service_id = s /\ table[i].date = d}) = 1
            /\ \A i \in 1..Len(table) :
                   /\ table[i].exception_type = 2
                   /\ table[i].service_id \in ServicesWithTokens
                   /\ table[i].date \in HolidaysInWindow

\* C18 witness: a table was returned for a document with two services, one
\* with tokens and one without, and two bank holidays inside the window.
C18_Witness ==
    /\ calpc = "done"
    /\ cal_result.status = "table"
    /\ Cardinality(HolidaysInWindow) = 2
    /\ ServicesWithTokens = {"v1"}
    /\ \E i \in 1..Len(cal_info) : cal_info[i].service_id = "v2"
    /\ Len(cal_result.table) = 2

\* The non-operation tokens of the document.
TokensOfDocument ==
    UNION {{cal_info[i].non_operative_days[k] :
               k \in 1..Len(cal_info[i].non_operative_days)} : i \in 1..Len(cal_info)}

\* C19: every token that is not recognized is named by a warning and
\* yields no calendar_dates row: a document whose only tokens are not
\* recognized gets no exception dates, and get_calendar_dates completes.
C19_UnrecognizedTokenNoRow ==
    calpc = "done" =>
        /\ \A h \in TokensOfDocument : NotRecognized(h) => h \in cal_result.warnings
        /\ (\A h \in TokensOfDocument : NotRecognized(h)) => Len(cal_result.table) = 0

\* C20: get_calendar_dates returns no table when no GTFS-info row carries a
\* non-operation token or when no bank holiday is inside the operative
\* window; process_file then appends no calendar_dates row, and (for a
\* document with stop_times rows) appends the other tables all the same.
C20_NoTableNothingAppended ==
    (ServicesWithTokens = {} \/ HolidaysInWindow = {}) =>
        /\ calpc \in {"append", "done"} =>
               cal_result.status = None /\ cal_result.table = <<>>
        /\ db_calendar_dates = <<>>
        /\ calpc = "done" =>
               /\ \A i \in 1..Len(cal_appended) : cal_appended[i] # "calendar_dates"
               /\ has_stop_times => cal_appended = TablesBefore

\* C20 witness: a document with tokens but no bank holiday inside the
\* window has gone through process_file and its five other tables were
\* appended.
C20_Witness ==
    /\ calpc = "done"
    /\ ServicesWithTokens # {}
    /\ holiday_dataset # {}
    /\ HolidaysInWindow = {}
    /\ cal_appended = TablesBefore

(***************************************************************************)
(* SpecConvert: convert().  The documents are processed by process_file,   *)
(* in the calling process (num_workers <= 1) or by the processes of a      *)
(* multiprocessing.Pool (pool.map), every process with its own sqlite      *)
(* connection to the one store; export_to_zip follows.                     *)
(***************************************************************************)
NumDocs == 2

Docs == 1..NumDocs

\* The processes of the pool.  Two processes run every race between the
\* appends of two documents; the number of documents is the bound.
Procs == {1, 2}
PoolSize == Cardinality(Procs)

\* What a document holds:
\*   Fatal   parsing, get_stops or a projector raises
\*   Empty   get_stop_times returns no row
\*   Plain   rows for every table, get_calendar_dates returns None
\*   Dated   rows for every table and for calendar_dates
DocKinds == {"Fatal", "Empty", "Plain", "Dated"}

\* The tables process_file appends with to_sql, in its order.
Relations == <<"stop_times", "stops", "routes", "trips", "calendar", "calendar_dates">>

AllRelations == {"agency"} \cup {Relations[i] : i \in 1..Len(Relations)}

\* Index of the last table appended for a document of the given kind
\* ("if calendar_dates is not None").
LastRelation(kind) == IF kind = "Dated" THEN 6 ELSE 5

\* multiprocessing.Pool.map: chunksize, extra = divmod(len(iterable),
\* len(pool) * 4); if extra: chunksize += 1.
ChunkSize(n, procs) ==
    (n \div (procs * 4)) + (IF n % (procs * 4) # 0 THEN 1 ELSE 0)

\* The documents num .. NumDocs cut into chunks of the given size.
RECURSIVE Chunks(_, _)
Chunks(first, size) ==
    IF first > NumDocs THEN <<>>
    ELSE LET last == IF first + size - 1 > NumDocs THEN NumDocs ELSE first + size - 1
         IN  <<[i \in 1..(last - first + 1) |-> first + i - 1]>> \o Chunks(last + 1, size)

\* The work of convert: one loop over all documents in the calling process,
\* or the chunks pool.map hands to the pool.
Work(n) ==
    IF n > 1 THEN Chunks(1, ChunkSize(NumDocs, n))
    ELSE <<[i \in 1..NumDocs |-> i]>>

\* The processes that run process_file.
Active == IF num_workers > 1 THEN 1..num_workers ELSE {1}

Errors == {"Fatal", "TableExists", "DatabaseError"}

ConvInit ==
    /\ LaterIdle
    /\ ProjIdle
    /\ SvcIdle
    /\ CacheIdle
    /\ StopIdle
    /\ FieldIdle
    /\ RouteIdle
    /\ CalIdle
    /\ doc_kind \in [Docs -> DocKinds]
    /\ num_workers \in {1, PoolSize}
    /\ queue = Work(num_workers)
    /\ wchunk = [w \in Procs |-> <<>>]
    /\ wpc = [w \in Procs |-> "idle"]
    /\ wrel = [w \in Procs |-> 0]
    /\ table_exists = {}
    /\ store = [r \in AllRelations |-> <<>>]
    /\ outcome = [d \in Docs |-> "Pending"]
    /\ cpc = "map"
    /\ export_view = <<>>

\* The process takes the next chunk of documents.
TakeChunk(w) ==
    /\ cpc = "map"
    /\ w \in Active
    /\ wpc[w] = "idle"
    /\ queue # <<>>
    /\ wchunk' = [wchunk EXCEPT ![w] = Head(queue)]
    /\ queue' = Tail(queue)
    /\ wpc' = [wpc EXCEPT ![w] = "compute"]
    /\ UNCHANGED <<doc_kind, num_workers, wrel, table_exists, store, outcome, cpc,
                   export_view, convOthers>>

\* process_file returned for the document at the head of the chunk: the
\* process goes on with the next document of the chunk.
DocReturns(w, result) ==
    /\ outcome' = [outcome EXCEPT ![Head(wchunk[w])] = result]
    /\ wchunk' = [wchunk EXCEPT ![w] = Tail(@)]
    /\ wpc' = [wpc EXCEPT ![w] = IF Tail(wchunk[w]) = <<>> THEN "idle" ELSE "compute"]

\* process_file raised: nothing catches it, so the loop over the documents
\* (the chunk) ends with it and the rest of the chunk is not processed.
DocRaises(w, error) ==
    /\ outcome' = [outcome EXCEPT ![Head(wchunk[w])] = error]
    /\ wchunk' = [wchunk EXCEPT ![w] = <<>>]
    /\ wpc' = [wpc EXCEPT ![w] = "idle"]

\* ET.parse, get_stops, get_gtfs_info and the projectors: a Fatal document
\* raises, an Empty one has len(stop_times) = 0 and is skipped with a
\* message, the others go on to the store.
Compute(w) ==
    /\ wpc[w] = "compute"
    /\ LET kind == doc_kind[Head(wchunk[w])]
       IN  CASE kind = "Fatal" -> DocRaises(w, "Fatal")
             [] kind = "Empty" -> DocReturns(w, "Skipped")
             [] OTHER -> /\ wpc' = [wpc EXCEPT ![w] = "agency"]
                         /\ UNCHANGED <<outcome, wchunk>>
    /\ UNCHANGED <<doc_kind, num_workers, queue, wrel, table_exists, store, cpc,
                   export_view, convOthers>>

\* AgencyTable(cur).populate(cur, data); conn.commit()
PopulateAgency(w) ==
    /\ wpc[w] = "agency"
    /\ store' = [store EXCEPT !["agency"] = Append(@, Head(wchunk[w]))]
    /\ table_exists' = table_exists \cup {"agency"}
    /\ wpc' = [wpc EXCEPT ![w] = "exists"]
    /\ wrel' = [wrel EXCEPT ![w] = 1]
    /\ UNCHANGED <<doc_kind, num_workers, queue, wchunk, outcome, cpc, export_view,
                   convOthers>>

\* The rows of the document are inserted into the table and committed;
\* process_file goes on with its next table or returns after the last one.
InsertRows(w) ==
    /\ store' = [store EXCEPT ![Relations[wrel[w]]] = Append(@, Head(wchunk[w]))]
    /\ IF wrel[w] = LastRelation(doc_kind[Head(wchunk[w])])
       THEN /\ DocReturns(w, "Ok")
            /\ wrel' = [wrel EXCEPT ![w] = 0]
       ELSE /\ wrel' = [wrel EXCEPT ![w] = @ + 1]
            /\ wpc' = [wpc EXCEPT ![w] = "exists"]
            /\ UNCHANGED <<outcome, wchunk>>

\* to_sql(if_exists="append") on a table that exists: the query whether the
\* table exists finds it and the rows are appended.  (A table is never
\* dropped, so nothing another process does between the query and the
\* insert changes what this process does.)
ToSqlAppend(w) ==
    /\ wpc[w] = "exists"
    /\ Relations[wrel[w]] \in table_exists
    /\ InsertRows(w)
    /\ UNCHANGED <<doc_kind, num_workers, queue, table_exists, cpc, export_view,
                   convOthers>>

\* to_sql(if_exists="append") on a table that does not exist, first part:
\* the query whether the table exists finds none, so the table will be
\* created.
ToSqlExists(w) ==
    /\ wpc[w] = "exists"
    /\ Relations[wrel[w]] \notin table_exists
    /\ wpc' = [wpc EXCEPT ![w] = "create"]
    /\ UNCHANGED <<doc_kind, num_workers, queue, wchunk, wrel, table_exists, store,
                   outcome, cpc, export_view, convOthers>>

\* Second part: CREATE TABLE for the table the query did not find.  The
\* statement fails when the table exists by now.
ToSqlCreate(w) ==
    /\ wpc[w] = "create"
    /\ IF Relations[wrel[w]] \in table_exists
       THEN /\ DocRaises(w, "TableExists")
            /\ UNCHANGED table_exists
       ELSE /\ table_exists' = table_exists \cup {Relations[wrel[w]]}
            /\ wpc' = [wpc EXCEPT ![w] = "insert"]
            /\ UNCHANGED <<outcome, wchunk>>
    /\ UNCHANGED <<doc_kind, num_workers, queue, wrel, store, cpc, export_view,
                   convOthers>>

\* Third part: the rows go into the table just created.
ToSqlInsert(w) ==
    /\ wpc[w] = "insert"
    /\ InsertRows(w)
    /\ UNCHANGED <<doc_kind, num_workers, queue, table_exists, cpc, export_view,
                   convOthers>>

\* to_sql raises a database error of its own while it inserts (the frame
\* has a column the table lacks, the disk is full, ...): the rows of this
\* table are not written, the tables committed before keep theirs.
ToSqlFails(w) ==
    /\ \/ wpc[w] = "insert"
       \/ wpc[w] = "exists" /\ Relations[wrel[w]] \in table_exists
    /\ DocRaises(w, "DatabaseError")
    /\ UNCHANGED <<doc_kind, num_workers, queue, wrel, table_exists, store, cpc,
                   export_view, convOthers>>

MapDone == queue = <<>> /\ \A w \in Procs : wpc[w] = "idle"

\* The loop (or pool.map) ended without an error: export_to_zip(gtfs_db, output).
Export ==
    /\ cpc = "map"
    /\ MapDone
    /\ \A d \in Docs : outcome[d] \notin Errors
    /\ cpc' = "exported"
    /\ export_view' = store
    /\ UNCHANGED <<doc_kind, num_workers, queue, wchunk, wpc, wrel, table_exists,
                   store, outcome, convOthers>>

\* The loop ended with the error of a document, or pool.map re-raises the
\* error of a chunk once all chunks are done: convert raises, no export.
ConvertRaises ==
    /\ cpc = "map"
    /\ MapDone
    /\ \E d \in Docs : outcome[d] \in Errors
    /\ cpc' = "raised"
    /\ UNCHANGED <<doc_kind, num_workers, queue, wchunk, wpc, wrel, table_exists,
                   store, outcome, export_view, convOthers>>

ConvNext ==
    \/ \E w \in Procs :
           \/ TakeChunk(w)
           \/ Compute(w)
           \/ PopulateAgency(w)
           \/ ToSqlAppend(w)
           \/ ToSqlExists(w)
           \/ ToSqlCreate(w)
           \/ ToSqlInsert(w)
           \/ ToSqlFails(w)
    \/ Export
    \/ ConvertRaises

SpecConvert == ConvInit /\ [][ConvNext]_vars

(***************************************************************************)
(* Properties of convert and process_file.                                 *)
(***************************************************************************)
\* How many times relation r of the store st holds rows of document d.
Count(st, r, d) == Cardinality({i \in 1..Len(st[r]) : st[r][i] = d})

\* The relations of the store st that hold rows of document d.
InStore(st, d) == {r \in AllRelations : Count(st, r, d) > 0}

\* The relations a sequential, error-free process_file writes for a document.
Expected(d) ==
    CASE doc_kind[d] = "Dated" -> AllRelations
      [] doc_kind[d] = "Plain" -> AllRelations \ {"calendar_dates"}
      [] OTHER -> {}

\* C3: when the only errors are fatal errors of documents, convert still
\* processes every other document, their rows reach the store, and the
\* export runs.
C3_FatalDocumentDoesNotAbortBatch ==
    (/\ cpc # "map"
     /\ \A d \in Docs : outcome[d] \notin {"TableExists", "DatabaseError"})
        => /\ cpc = "exported"
           /\ \A d \in Docs :
                  doc_kind[d] # "Fatal" =>
                      /\ outcome[d] \in {"Ok", "Skipped"}
                      /\ InStore(store, d) = Expected(d)

\* C7: under every interleaving of the workers no worker fails because
\* another worker created the relation it appends to, no append is lost or
\* doubled, and the export sees of every document all its relations or none.
C7_ConcurrentAppendsAsSequential ==
    /\ \A d \in Docs : outcome[d] # "TableExists"
    /\ \A d \in Docs : \A r \in AllRelations : Count(store, r, d) <= 1
    /\ \A d \in Docs : outcome[d] = "Ok" => InStore(store, d) = Expected(d)
    /\ cpc = "exported" =>
           \A d \in Docs : InStore(export_view, d) \in {{}, Expected(d)}

\* C8: a document that failed has no row in any relation of the store, a
\* document that succeeded has its rows in all of its relations.
C8_DocumentAllOrNothing ==
    \A d \in Docs :
        /\ outcome[d] \in Errors => InStore(store, d) = {}
        /\ outcome[d] = "Ok" => InStore(store, d) = Expected(d)

(***************************************************************************)
(* SpecFields: the functions that derive one field from one value of the   *)
(* document: the coordinate pair of the inline fallback, get_mode and      *)
(* get_direction.                                                          *)
(***************************************************************************)
\* Easting and Northing values, in whole units (degrees or metres).
Eastings == {-529000, -181, -180, -1, 0, 179, 180, 181, 529000}
Northings == {0, 51, 181000}

\* "if x > 180: detected_epsg = 7405 else: detected_epsg = 4326"
detect_epsg(x) == IF x > 180 THEN 7405 ELSE 4326

\* pyproj.transform(p1=osgb36, p2=wgs84, x=x, y=y), to whole degrees: the
\* grid has its origin at 49N 2W with false easting 400000 and false
\* northing -100000; one degree is about 70 km east and 111 km north.
transform(x, y) ==
    [x |-> (x - 400000) \div 70000 - 2, y |-> (y + 100000) \div 111000 + 49]

\* The coordinates of the row built from a StopPoint that the registry does
\* not hold.
fallback_coordinates(x, y) ==
    LET detected_epsg == detect_epsg(x)
    IN  IF detected_epsg = 7405
        THEN [detected_epsg |-> detected_epsg, stop_lon |-> transform(x, y).x,
              stop_lat |-> transform(x, y).y]
        ELSE [detected_epsg |-> detected_epsg, stop_lon |-> x, stop_lat |-> y]

\* The Mode child of a Service element: no such child, a child without text,
\* or its text.
ModeElems ==
    {"NoMode", "", "tram", "trolleyBus", "trolleybus", "underground", "metro", "rail",
     "bus", "coach", "ferry", "air"}

\* get_text(base, path, default=None): the default when the element is
\* missing or has no text, its text otherwise.
get_text_default(el) ==
    IF el = "NoMode" THEN None
    ELSE IF el = "" THEN None
    ELSE el

\* get_mode with the branch of rail missing.
get_mode_without_rail(service) ==
    LET mode == get_text_default(service)
    IN  CASE mode \in {"tram", "trolleyBus"} -> 0
          [] mode \in {"underground", "metro"} -> 1
          [] mode \in {"bus", "coach"} -> 3
          [] mode = "ferry" -> 4
          [] OTHER -> 3

get_mode(service) ==
    LET mode == get_text_default(service)
    IN  CASE mode \in {"tram", "trolleyBus"} -> 0
          [] mode \in {"underground", "metro"} -> 1
          [] mode = "rail" -> 2
          [] mode \in {"bus", "coach"} -> 3
          [] mode = "ferry" -> 4
          [] OTHER -> 3

DirectionTokens == {"inbound", "outbound", "Inbound", "clockwise", ""}

\* get_direction that takes every token but inbound for outbound.
get_direction_guess(token) ==
    IF token = "inbound" THEN [status |-> "ok", value |-> 0]
    ELSE [status |-> "ok", value |-> 1]

get_direction(token) ==
    IF token = "inbound" THEN [status |-> "ok", value |-> 0]
    ELSE IF token = "outbound" THEN [status |-> "ok", value |-> 1]
    ELSE [status |-> "ValueError", value |-> 0]

FieldsInit ==
    /\ LaterIdle
    /\ ProjIdle
    /\ SvcIdle
    /\ CacheIdle
    /\ ConvIdle
    /\ StopIdle
    /\ RouteIdle
    /\ CalIdle
    /\ easting \in Eastings
    /\ northing \in Northings
    /\ coord_row = [detected_epsg |-> 0, stop_lon |-> 0, stop_lat |-> 0]
    /\ mode_elem \in ModeElems
    /\ mode_result = 0
    /\ direction_id \in DirectionTokens
    /\ direction_result = [status |-> NotRun, value |-> 0]
    /\ fdone = {}

FallbackCoordinates ==
    /\ "coordinates" \notin fdone
    /\ coord_row' = fallback_coordinates(easting, northing)
    /\ fdone' = fdone \cup {"coordinates"}
    /\ UNCHANGED <<easting, northing, mode_elem, mode_result, direction_id,
                   direction_result, fieldOthers>>

GetMode ==
    /\ "mode" \notin fdone
    /\ mode_result' = get_mode(mode_elem)
    /\ fdone' = fdone \cup {"mode"}
    /\ UNCHANGED <<easting, northing, coord_row, mode_elem, direction_id,
                   direction_result, fieldOthers>>

GetDirection ==
    /\ "direction" \notin fdone
    /\ direction_result' = get_direction(direction_id)
    /\ fdone' = fdone \cup {"direction"}
    /\ UNCHANGED <<easting, northing, coord_row, mode_elem, mode_result, direction_id,
                   fieldOthers>>

FieldsNext == FallbackCoordinates \/ GetMode \/ GetDirection

SpecFields == FieldsInit /\ [][FieldsNext]_vars

\* The magnitude of a number.
Abs(x) == IF x < 0 THEN -x ELSE x

\* C14: the pair is reprojected exactly when the magnitude of the raw
\* easting is greater than 180 (also for a value below -180); otherwise both
\* coordinates are emitted unchanged.
C14_ProjectedIffMagnitudeAbove180 ==
    "coordinates" \in fdone =>
        /\ coord_row.detected_epsg = 7405 <=> Abs(easting) > 180
        /\ Abs(easting) <= 180 =>
               coord_row.stop_lon = easting /\ coord_row.stop_lat = northing
        /\ Abs(easting) > 180 =>
               /\ coord_row.stop_lon = transform(easting, northing).x
               /\ coord_row.stop_lat = transform(easting, northing).y

\* C15 as stated: tram and trolleybus give 0 (the token as the claim spells
\* it, in lower case; the TransXChange spelling trolleyBus is taken to be
\* meant as well), underground and metro 1, rail 2, bus and coach 3, ferry 4,
\* every other token, an empty Mode element and a missing Mode element 3.
C15_ModeTableLowerCase ==
    "mode" \in fdone =>
        mode_result = CASE mode_elem \in {"tram", "trolleybus", "trolleyBus"} -> 0
                        [] mode_elem \in {"underground", "metro"} -> 1
                        [] mode_elem = "rail" -> 2
                        [] mode_elem \in {"bus", "coach"} -> 3
                        [] mode_elem = "ferry" -> 4
                        [] OTHER -> 3

\* C15 amended: the token that gives 0 next to tram is trolleyBus, spelled
\* as TransXChange spells it; trolleybus in lower case is one of the other
\* tokens and gives 3.  The rest of the table is as stated.
C15_ModeTable ==
    "mode" \in fdone =>
        mode_result = CASE mode_elem \in {"tram", "trolleyBus"} -> 0
                        [] mode_elem \in {"underground", "metro"} -> 1
                        [] mode_elem = "rail" -> 2
                        [] mode_elem \in {"bus", "coach"} -> 3
                        [] mode_elem = "ferry" -> 4
                        [] OTHER -> 3

\* C15 witness: get_mode has mapped rail to 2.
C15_Witness == "mode" \in fdone /\ mode_elem = "rail" /\ mode_result = 2

\* C17: get_direction returns 0 for inbound and 1 for outbound and raises
\* for every other token.
C17_DirectionOrError ==
    "direction" \in fdone =>
        /\ direction_id = "inbound" =>
               direction_result = [status |-> "ok", value |-> 0]
        /\ direction_id = "outbound" =>
               direction_result = [status |-> "ok", value |-> 1]
        /\ direction_id \notin {"inbound", "outbound"} =>
               direction_result.status = "ValueError"

\* C17 witness: get_direction has raised for a token it does not know.
C17_Witness ==
    /\ "direction" \in fdone
    /\ direction_id = "clockwise"
    /\ direction_result.status = "ValueError"

(***************************************************************************)
(* SpecRoutes: get_routes on one document.                                 *)
(***************************************************************************)
MaxRoutes == 2
MaxInfoRows == 2
MaxServices == 2

DeclaredRouteIds == {"r1", "r2"}
AgencyIds == {"a1", "a2"}
LineNames == {"L1", "L2"}

\* A Route element: its id attribute, and whether it has the Description,
\* PrivateCode and RouteSectionRef children (with text) that get_routes reads
\* with get_text without a default.
RouteElements == [id : DeclaredRouteIds, complete : BOOLEAN]

\* A GTFS-info row, in the columns get_routes reads.
RouteInfoRows == [route_id : DeclaredRouteIds, agency_id : AgencyIds, line_name : LineNames]

\* The Mode child of a Service element.
ServiceModes == {"rail", "bus"}

\* get_route_type(data): the mode of the first Service element, 3 when the
\* document has none.
get_route_type(service_elems) ==
    IF service_elems = <<>> THEN 3 ELSE get_mode(Head(service_elems))

\* The generator parse_routes, consumed by DataFrame.from_records: one row
\* per Route element; ".iloc[0]" raises IndexError when no GTFS-info row has
\* the route_id, get_text raises AssertionError on a missing child.
RECURSIVE parse_routes(_, _, _, _)
parse_routes(elems, info, service_elems, table) ==
    IF elems = <<>> THEN [status |-> "ok", table |-> table]
    ELSE LET r == Head(elems)
             rows == SelectSeq(info, LAMBDA row : row.route_id = r.id)
         IN  IF rows = <<>> THEN [status |-> "IndexError", table |-> <<>>]
             ELSE IF ~r.complete THEN [status |-> "AssertionError", table |-> <<>>]
             ELSE parse_routes(Tail(elems), info, service_elems,
                               Append(table,
                                      [route_id |-> r.id,
                                       agency_id |-> rows[1].agency_id,
                                       route_short_name |-> rows[1].line_name,
                                       route_type |-> get_route_type(service_elems)]))

get_routes(info, elems, service_elems) == parse_routes(elems, info, service_elems, <<>>)

RoutesInit ==
    /\ LaterIdle
    /\ ProjIdle
    /\ SvcIdle
    /\ CacheIdle
    /\ ConvIdle
    /\ StopIdle
    /\ FieldIdle
    /\ CalIdle
    /\ route_elems \in SeqsUpTo(RouteElements, MaxRoutes)
    /\ route_info \in SeqsUpTo(RouteInfoRows, MaxInfoRows)
    /\ services \in SeqsUpTo(ServiceModes, MaxServices)
    /\ routes_result = [status |-> NotRun, table |-> <<>>]
    /\ rpc = "input"

GetRoutes ==
    /\ rpc = "input"
    /\ routes_result' = get_routes(route_info, route_elems, services)
    /\ rpc' = "done"
    /\ UNCHANGED <<route_elems, route_info, services, routeOthers>>

RoutesNext == GetRoutes

SpecRoutes == RoutesInit /\ [][RoutesNext]_vars

\* The route ids the document declares.
DeclaredIds == {route_elems[i].id : i \in 1..Len(route_elems)}

\* C16: get_routes returns exactly one row per distinct declared route_id,
\* also for a route no GTFS-info row refers to and for an id declared more
\* than once; a route with GTFS-info rows has the agency_id and
\* route_short_name of the first such row; every row has the route_type of
\* the first Service element.
C16_OneRowPerDeclaredRoute ==
    (rpc = "done" /\ \A i \in 1..Len(route_elems) : route_elems[i].complete) =>
        LET table == routes_result.table
        IN  /\ routes_result.status = "ok"
            /\ {table[i].route_id : i \in 1..Len(table)} = DeclaredIds
            /\ Len(table) = Cardinality(DeclaredIds)
            /\ \A i \in 1..Len(table) :
                   /\ table[i].route_type = get_route_type(services)
                   /\ \A j \in 1..Len(route_info) :
                          (/\ route_info[j].route_id = table[i].route_id
                           /\ \A k \in 1..(j - 1) :
                                  route_info[k].route_id # table[i].route_id)
                              => /\ table[i].agency_id = route_info[j].agency_id
                                 /\ table[i].route_short_name = route_info[j].line_name

(***************************************************************************)
(* SpecExport: documents append their tables to the staging store, then    *)
(* generate_gtfs_export reads the store and drops duplicates.              *)
(***************************************************************************)
MaxAppends == 2

\* The natural keys that occur (agency_id, route_id, stop_id, service_id).
Keys == {"k1", "k2"}
ExceptionDates == {1, 2}

\* The relations that the export keys by one column.
KeyedRelations == {"agency", "routes", "stops", "calendar"}

\* What one document appends: one row to each keyed relation, with the key
\* given here, and one calendar_dates row per date for its service_id (the
\* table get_calendar_dates built; no table when there is no date).
DocumentTables ==
    [agency : Keys, routes : Keys, stops : Keys, calendar : Keys,
     dates : SUBSET ExceptionDates]

EmptyStore ==
    [r \in KeyedRelations \cup {"calendar_dates"} |-> <<>>]

\* The rows a document adds to a relation; doc tells the rows of different
\* documents apart in the columns that are not the key.
RowsOf(tables, doc, r) ==
    IF r = "calendar_dates"
    THEN LET dates == Ascending(tables.dates)
         IN  [i \in 1..Len(dates) |->
                 [service_id |-> tables.calendar, date |-> dates[i], doc |-> doc]]
    ELSE <<[key |-> tables[r], doc |-> doc]>>

\* drop_duplicates that keeps every row.
drop_duplicates_nothing(table, keys) == table

\* DataFrame.drop_duplicates(subset=[column]): keys[i] is the value of the
\* column in row i.
drop_duplicates_subset(table, keys) == KeepFirst(table, keys, Len(table))

\* generate_gtfs_export: "SELECT * FROM stops" raises when no document has
\* created the tables; read_sql_query of calendar_dates is inside try/except
\* and gives an empty frame when the table is missing.
generate_gtfs_export(st) ==
    IF st["stops"] = <<>>
    THEN [status |-> "DatabaseError", tables |-> EmptyStore]
    ELSE [status |-> "ok",
          tables |->
              [r \in KeyedRelations \cup {"calendar_dates"} |->
                  IF r = "calendar_dates"
                  THEN drop_duplicates_subset(
                           st[r], [i \in 1..Len(st[r]) |-> st[r][i].service_id])
                  ELSE drop_duplicates_subset(
                           st[r], [i \in 1..Len(st[r]) |-> st[r][i].key])]]

ExportInit ==
    /\ EarlierIdle
    /\ AgencyIdle
    /\ DistIdle
    /\ PathIdle
    /\ exp_store = EmptyStore
    /\ exp_appends = 0
    /\ exp_result = [status |-> NotRun, tables |-> <<>>]
    /\ epc = "append"

\* process_file for one more document: its tables are appended.
AppendDocument ==
    /\ epc = "append"
    /\ exp_appends < MaxAppends
    /\ \E tables \in DocumentTables :
           exp_store' = [r \in KeyedRelations \cup {"calendar_dates"} |->
                            exp_store[r] \o RowsOf(tables, exp_appends + 1, r)]
    /\ exp_appends' = exp_appends + 1
    /\ UNCHANGED <<exp_result, epc, expOthers>>

GenerateGtfsExport ==
    /\ epc = "append"
    /\ exp_result' = generate_gtfs_export(exp_store)
    /\ epc' = "done"
    /\ UNCHANGED <<exp_store, exp_appends, expOthers>>

ExportNext == AppendDocument \/ GenerateGtfsExport

SpecExport == ExportInit /\ [][ExportNext]_vars

\* The keys of the rows of a keyed table.
KeysIn(table) == {table[i].key : i \in 1..Len(table)}

\* C21: the exported agency, routes, stops and calendar tables hold exactly
\* one row per distinct key present in the store: no key twice, none lost.
C21_OneRowPerNaturalKey ==
    (epc = "done" /\ exp_result.status = "ok") =>
        \A r \in KeyedRelations :
            /\ KeysIn(exp_result.tables[r]) = KeysIn(exp_store[r])
            /\ Len(exp_result.tables[r]) = Cardinality(KeysIn(exp_store[r]))

\* C21 witness: two documents appended the same agency_id and different
\* stop_ids, and the export holds one agency row and two stops rows.
C21_Witness ==
    /\ epc = "done"
    /\ Len(exp_store["agency"]) = 2
    /\ Len(exp_result.tables["agency"]) = 1
    /\ Len(exp_result.tables["stops"]) = 2

\* The (service_id, date) pairs of a calendar_dates table.
PairsIn(table) == {<<table[i].service_id, table[i].date>> : i \in 1..Len(table)}

\* C22: every distinct (service_id, date) pair appended to the store is in
\* the exported calendar_dates table exactly once.
C22_EveryExceptionDateExported ==
    (epc = "done" /\ exp_result.status = "ok") =>
        LET table == exp_result.tables["calendar_dates"]
        IN  /\ PairsIn(table) = PairsIn(exp_store["calendar_dates"])
            /\ Len(table) = Cardinality(PairsIn(exp_store["calendar_dates"]))

(***************************************************************************)
(* SpecAgency: get_agency on the Operator elements of one document.        *)
(***************************************************************************)
MaxOperators == 2

\* The static table of operator URLs.
OPERATOR_URLS ==
    [id \in {"OId_LUL", "OId_DLR", "OId_TRS", "OId_CCR",
              "OId_CV", "OId_WFF", "OId_TCL", "OId_EAL"} |->
        CASE id = "OId_LUL" -> "https://tfl.gov.uk/maps/track/tube"
          [] id = "OId_DLR" -> "https://tfl.gov.uk/modes/dlr/"
          [] id = "OId_TRS" -> "https://www.thamesriverservices.co.uk/"
          [] id = "OId_CCR" -> "https://www.citycruises.com/"
          [] id = "OId_CV" -> "https://www.thamesclippers.com/"
          [] id = "OId_WFF" -> "https://tfl.gov.uk/modes/river/woolwich-ferry"
          [] id = "OId_TCL" -> "https://tfl.gov.uk/modes/trams/"
          [] id = "OId_EAL" -> "https://www.emiratesairline.co.uk/"]

\* The id attribute and the OperatorNameOnLicence text of an Operator
\* element; None when the attribute or the element is missing.
OperatorIds == {"OId_LUL", "OId_DLR", "OId_XYZ", None}
OperatorNames == {"Tube", "Rail", None}

OperatorElements == [id : OperatorIds, name : OperatorNames]

OperatorLists ==
    UNION {[1..n -> OperatorElements] : n \in 0..MaxOperators}

\* dict.get(agency_id, "NA")
operator_url(agency_id) ==
    IF agency_id \in DOMAIN OPERATOR_URLS THEN OPERATOR_URLS[agency_id] ELSE "NA"

\* The tuple gen_agencies yields for one Operator element.
agency_row(el) ==
    [agency_id |-> el.id, agency_name |-> el.name,
     agency_url |-> operator_url(el.id),
     agency_timezone |-> "Europe/London", agency_lang |-> "en"]

\* get_agency: the asserts fail on a missing id or name; drop_duplicates
\* without subset compares whole rows.
get_agency(ops) ==
    IF \E i \in 1..Len(ops) : ops[i].id = None \/ ops[i].name = None
    THEN [status |-> "AssertionError", table |-> <<>>]
    ELSE LET rows == [i \in 1..Len(ops) |-> agency_row(ops[i])]
         IN  [status |-> "ok", table |-> KeepFirst(rows, rows, Len(rows))]

AgencyInit ==
    /\ EarlierIdle
    /\ ExpIdle
    /\ DistIdle
    /\ PathIdle
    /\ operators \in OperatorLists
    /\ agency_result = [status |-> NotRun, table |-> <<>>]
    /\ apc = "call"

GetAgency ==
    /\ apc = "call"
    /\ agency_result' = get_agency(operators)
    /\ apc' = "done"
    /\ UNCHANGED <<operators, agencyOthers>>

AgencyNext == GetAgency

SpecAgency == AgencyInit /\ [][AgencyNext]_vars

\* C23: get_agency returns exactly one row per distinct Operator id: the
\* agency_id is unique in the result, every declared id is represented, and
\* agency_url is the static-table entry of the id, or "NA" without one.
C23_OneRowPerOperatorId ==
    (apc = "done" /\ agency_result.status = "ok") =>
        LET table == agency_result.table
        IN  /\ \A i, j \in 1..Len(table) :
                   table[i].agency_id = table[j].agency_id => i = j
            /\ {table[i].agency_id : i \in 1..Len(table)} =
                   {operators[i].id : i \in 1..Len(operators)}
            /\ \A i \in 1..Len(table) :
                   table[i].agency_url = operator_url(table[i].agency_id)

(***************************************************************************)
(* Determinism of convert (SpecConvert).                                   *)
(***************************************************************************)
\* The rows of every exported table are in the order of the input documents,
\* which is the order the loop of a run with one worker appends them in.
InInputOrder(view) ==
    \A r \in AllRelations :
        \A i, j \in 1..Len(view[r]) : i < j => view[r][i] <= view[r][j]

\* C24: a run of convert over given inputs exports the same tables, rows in
\* the same order, as any other run over them: whatever the worker count
\* and the order in which workers append, the export equals that of the run
\* with one worker, whose rows are in input order.
C24_ExportIndependentOfSchedule ==
    cpc = "exported" => InInputOrder(export_view)

(***************************************************************************)
(* SpecWorkers: create_workers cuts the input file list into workloads.    *)
(***************************************************************************)
MaxFiles == 6
MaxWorkerCnt == 5

\* batch_size with floor division.
batch_size_floor(file_cnt, core_cnt) == file_cnt \div core_cnt

\* math.ceil(file_cnt / core_cnt)
batch_size(file_cnt, core_cnt) == (file_cnt + core_cnt - 1) \div core_cnt

Min(a, b) == IF a < b THEN a ELSE b

\* The Python slice s[start:stop] with 0 <= start, stop; both ends are
\* clamped to the length of the list.
Slice(s, start, stop) == SubSeq(s, Min(start, Len(s)) + 1, Min(stop, Len(s)))

WorkersInit ==
    /\ EarlierIdle
    /\ ExpIdle
    /\ AgencyIdle
    /\ PathIdle
    /\ \E n \in 0..MaxFiles : input_files = [i \in 1..n |-> i]
    /\ worker_cnt \in 1..MaxWorkerCnt
    /\ workloads = <<>>
    /\ wkpc = "loop"

\* One iteration of "for i in range(0, core_cnt)": i is the number of
\* workloads so far, and start_i and end_i, which grow by batch_size in
\* every iteration, are i * batch_size and (i + 1) * batch_size.
AppendWorkload ==
    /\ wkpc = "loop"
    /\ Len(workloads) < worker_cnt
    /\ LET i == Len(workloads)
           size == batch_size(Len(input_files), worker_cnt)
           start_i == i * size
           end_i == (i + 1) * size
           selection == IF i = worker_cnt - 1
                        THEN Slice(input_files, start_i, Len(input_files))
                        ELSE Slice(input_files, start_i, end_i)
       IN  workloads' = Append(workloads, selection)
    /\ UNCHANGED <<input_files, worker_cnt, wkpc, distOthers>>

ReturnWorkers ==
    /\ wkpc = "loop"
    /\ Len(workloads) = worker_cnt
    /\ wkpc' = "done"
    /\ UNCHANGED <<input_files, worker_cnt, workloads, distOthers>>

WorkersNext == AppendWorkload \/ ReturnWorkers

SpecWorkers == WorkersInit /\ [][WorkersNext]_vars

\* The lists of a sequence of lists, one after the other.
RECURSIVE Concat(_)
Concat(lists) ==
    IF lists = <<>> THEN <<>> ELSE Head(lists) \o Concat(Tail(lists))

\* C25: create_workers returns exactly worker_cnt workloads whose file
\* lists, one after the other in worker order, are the input list (every
\* document with exactly one worker), and no workload holds more than
\* ceil(file count / worker count) documents.
C25_WorkloadsPartitionInput ==
    wkpc = "done" =>
        /\ Len(workloads) = worker_cnt
        /\ Concat(workloads) = input_files
        /\ \A w \in 1..Len(workloads) :
               Len(workloads[w]) * worker_cnt < Len(input_files) + worker_cnt

\* C25 witness: a returned list of workloads for a non-empty input where
\* one workload is empty and another holds several files.
C25_Witness ==
    /\ wkpc = "done"
    /\ input_files # <<>>
    /\ \E w \in 1..Len(workloads) : workloads[w] = <<>>
    /\ \E w \in 1..Len(workloads) : Len(workloads[w]) > 1

(***************************************************************************)
(* Retrieval only for a missing or expired cache (SpecCache).              *)
(***************************************************************************)
\* A file is in the cache location and is at most max_age old.
WithinMaxAge(file) == file \notin {"Missing", "Stale"}

\* C26: in every step of every call of download_cached: a call that finds a
\* cached file of age at most max_age returns the path at once, without
\* taking the lock, retrieving or touching the file; a retrieval is only
\* started by the lock holder while the file is missing or older than
\* max_age; and a call that returns the path leaves a file within max_age in
\* place, so an expired file has been replaced by a download.
C26_RetrievalOnlyWhenMissingOrExpired ==
    [][\A w \in Workers :
          /\ (dpc[w] = "check" /\ dpc'[w] # "check" /\ WithinMaxAge(cached_file)) =>
                 /\ dpc'[w] = "returned"
                 /\ how'[w] = "Fast"
                 /\ attempt'[w] = 0
                 /\ lock' = lock
                 /\ cached_file' = cached_file
                 /\ refreshes' = refreshes
          /\ attempt'[w] > attempt[w] =>
                 /\ ~WithinMaxAge(cached_file)
                 /\ lock = {w}
          /\ (dpc[w] # "returned" /\ dpc'[w] = "returned") =>
                 WithinMaxAge(cached_file')]_vars

\* C26 witness: one call refreshed the missing or expired file and a later
\* call found the fresh file and returned on the fast path with no attempt.
C26_Witness ==
    \E v, w \in Workers :
        /\ how[v] = "Refreshed"
        /\ how[w] = "Fast"
        /\ dpc[w] = "returned"
        /\ attempt[w] = 0

(***************************************************************************)
(* SpecPaths: get_xml_paths on a zip archive, an XML file or a directory.  *)
(***************************************************************************)
\* File names ending in ".xml", other file names, and names of zip archives.
XmlNames == {"a.xml", "b.xml"}
OtherNames == {"readme.txt", "stops.csv"}
ZipNames == {"x.zip", "y.zip"}

\* The input path: its kind (by suffix, or a directory, or anything else),
\* and for an archive its members, for a directory its files and archives.
PathInputs ==
    [kind : {"zip"}, xml : SUBSET XmlNames, other : SUBSET OtherNames, zips : {{}}]
    \cup [kind : {"xml", "other"}, xml : {{}}, other : {{}}, zips : {{}}]
    \cup [kind : {"dir"}, xml : SUBSET XmlNames, other : SUBSET OtherNames,
          zips : SUBSET ZipNames]

\* The name of the input itself where an item refers to it.
Self == "input"

\* An item that iterating the result yields: its Python type ("str",
\* "Path", "dict" or "generator"), the file or member name, and the archive
\* a dict maps to or a generator reads.
Item(shape, name, archive) == [shape |-> shape, name |-> name, archive |-> archive]

\* get_paths_from_zip: one {name: zip_filepath} per member ending in ".xml".
get_paths_from_zip(members, archive) ==
    {Item("dict", name, archive) : name \in members \cap XmlNames}

\* get_xml_paths.  For a directory, itertools.chain runs through the Path
\* objects of filepath.glob("*.xml") and then through the generator
\* expression, whose elements are the generator objects get_paths_from_zip
\* returns, one per archive.
get_xml_paths(input) ==
    CASE input.kind = "zip" ->
             [status |-> "ok",
              items |-> get_paths_from_zip(input.xml \cup input.other, Self)]
      [] input.kind = "xml" ->
             [status |-> "ok", items |-> {Item("str", Self, None)}]
      [] input.kind = "other" ->
             [status |-> "ValueError", items |-> {}]
      [] input.kind = "dir" ->
             [status |-> "ok",
              items |-> {Item("Path", name, None) : name \in input.xml}
                        \cup {Item("generator", None, z) : z \in input.zips}]

PathsInit ==
    /\ EarlierIdle
    /\ ExpIdle
    /\ AgencyIdle
    /\ DistIdle
    /\ path_input \in PathInputs
    /\ path_result = [status |-> NotRun, items |-> {}]
    /\ xpc = "call"

\* The call and the iteration of its result to the end.
GetXmlPaths ==
    /\ xpc = "call"
    /\ path_result' = get_xml_paths(path_input)
    /\ xpc' = "done"
    /\ UNCHANGED <<path_input, pathOthers>>

PathsNext == GetXmlPaths

SpecPaths == PathsInit /\ [][PathsNext]_vars

\* C27: for a directory, get_xml_paths yields only string paths ending in
\* .xml, one per XML document of the directory; for a zip archive, only
\* single-entry mappings from a member name ending in .xml to the archive,
\* one per such member; nothing of another shape and no other member.
C27_OnlyXmlStringsOrMappings ==
    (xpc = "done" /\ path_result.status = "ok") =>
        /\ path_input.kind = "dir" =>
               /\ \A item \in path_result.items :
                      item.shape = "str" /\ item.name \in XmlNames
               /\ {item.name : item \in path_result.items} = path_input.xml
        /\ path_input.kind = "zip" =>
               /\ \A item \in path_result.items :
                      /\ item.shape = "dict"
                      /\ item.name \in XmlNames
                      /\ item.archive = Self
               /\ {item.name : item \in path_result.items} = path_input.xml

(***************************************************************************)
(* The inline strategy visits the StopPoint children (SpecStops).          *)
(***************************************************************************)
\* The StopPoint children of the document's StopPoints container.
StopPointChildren ==
    SelectSeq(stop_points.children, LAMBDA c : c.tag = "StopPoint")

\* C28: when the inline strategy returns, every StopPoint child of the
\* StopPoints container has given either one record of the table or one
\* warning: records plus warnings equal the number of StopPoint children.
C28_EveryStopPointVisited ==
    (spc = "done" /\ stops_result.strategy = "inline" /\ stops_result.status = "ok") =>
        Len(stops_result.table) + Len(stops_result.warnings) = Len(StopPointChildren)

====
